---- MODULE Spec2Model ----
(***************************************************************************)
(* A model of the inference context (parser/context.py), of the module    *)
(* cache of the manager (parser/manager.py, parser/builder.py) and of the  *)
(* type helpers (parser/helpers.py).                                       *)
(*                                                                         *)
(* Python objects that are shared by reference (the visited set `path`,    *)
(* the one-element counter list `_nodes_inferred`, the dict                *)
(* `extra_context`) live in heaps: a context holds the index of its        *)
(* object, so that two contexts holding the same index alias one object.   *)
(***************************************************************************)
EXTENDS Integers, Sequences, FiniteSets, TLC

\* ------------------------------------------------------------------ bounds
\* The number of InferenceContext objects a run creates.
MaxCtx == 3

\* The number of contexts in the runs that write every slot.
MaxFieldCtx == 2

\* The number of names one definition of a walked graph refers to.
MaxFork == 2

\* The number of Module objects a run builds.
MaxModules == 2

\* The number of lookups of one key through file_from_module_name.
MaxLookups == 3

\* ------------------------------------------------------- program constants
\* InferenceContext.max_inferred
max_inferred == 100

\* ------------------------------------------------------------ value domains
None == "None"
\* Node identities handed to push / bind_context_to_node.
Nodes == {"n1", "n2"}
\* Values of InferenceContext.lookupname.
Names == {None, "a"}
\* Values of InferenceContext.callcontext (None or a CallContext object).
CallContexts == {None, "call"}
\* Keys written into the extension dict extra_context.
ExtKeys == {"k"}
\* The definitions a walk runs over, and the name each one defines.
WalkNodes == {"n1", "n2"}
NameOf(n) == IF n = "n1" THEN "a" ELSE "b"
\* Nodes pushed and bound in the runs over contexts.
PushNodes == {"n1"}
\* Values written through the nodes_inferred setter.
WrittenValues == {0, 1, 2}
\* The value written in the runs that bind contexts to nodes.
BoundValues == {2}

\* Sequences over S of length at most n.
SeqsUpTo(S, n) == UNION {[1..k -> S] : k \in 0..n}

VARIABLES
    ctxs,     \* heap of InferenceContext objects: Seq of slot records
    paths,    \* heap of `path` sets: Seq of sets of <<node, lookupname>>
    cells,    \* heap of `_nodes_inferred` one-element lists: Seq of Nat
    extras,   \* heap of `extra_context` dicts: Seq of sets of keys
    parent,   \* history: parent[c] is the context c was cloned from, 0 if fresh
    yielded,  \* history: yielded[r] counts the values yielded in the session
              \* of the fresh context r (through r or any context derived from it)
    ret,      \* what the last call returned: "None", "True", "False", "Yield", "Stop"
    graph,    \* the node graph a walk runs over: graph[n] is the sequence of
              \* nodes whose names the definition n refers to
    stack,    \* the pending <<context, node>> pairs of the walk
    trail,    \* history: trail[c] lists the pairs expanded on the path to c
    steps,    \* history: the number of steps the walk has taken
    modules,  \* heap of the Module objects built so far: Seq of records
    ast_cache,\* Manager.brain["ast_cache"]: module name -> index of a Module
    mret,     \* how the last call on the manager or the builder ended
    mod_file_cache, \* Manager.brain["_mod_file_cache"]: <<modname, contextfile>>
              \* -> a file location or a recorded exception
    hook_calls, \* history: how often file_info_from_modpath ran for each key
    lookups,  \* history: how often file_from_module_name ran for each key
    fret,     \* how the last call of file_from_module_name ended
    managers, \* the Manager instances: Seq of [ast_cache, mod_file_cache], each
              \* the dict the attribute references: 0 is the dict of
              \* Manager.brain, k > 0 is the dict dicts[k]
    dicts,    \* heap of the dicts made apart from those of Manager.brain
    inserted, \* history: the instance the last entry was inserted through,
              \* and the number of instances there were then
    locals,   \* locals[k] is scope().locals of the module modules[k]: name ->
              \* Seq of the nodes defining it
    added,    \* history: the number of nodes inserted into locals directly
    work,     \* work[k] is what the builder did on modules[k]: the steps run
              \* on it, the delayed attribute nodes assigned, the number of
              \* visits of the transforms
    sess,     \* the sessions: what each one is building and where it is
    parse_log,\* history: the calls of _parse_string, each with the calls
              \* it made of the syntax adapter and how it ended
    hret,     \* how the last call of a helper of helpers.py ended, and on what
    classes,  \* heap of the ClassDef nodes: their bases, whether they are of
              \* the new style, and the attribute _all_bases_known
    tret,     \* how the last call of has_known_bases, is_subtype or is_supertype
              \* ended, and on which classes
    iattrs,   \* iattrs[e] is the list of the nodes assigning the attribute in
              \* the attribute table of the entity e
    alog      \* history: the number of calls of delayed_assattr, and what the
              \* last one put into which table

ctxvars == <<ctxs, paths, cells, extras, parent, yielded, ret>>
walkvars == <<graph, stack, trail, steps>>
mgrvars == <<modules, ast_cache, mret>>
resvars == <<mod_file_cache, hook_calls, lookups, fret>>
\* The state of the later sections, which the earlier ones leave alone.
instvars == <<managers, dicts, inserted>>
locvars == <<locals, added>>
bldvars == <<work, sess>>
\* The state of the parsing and of the helpers of helpers.py.
helpvars == <<parse_log, hret, classes, tret, iattrs, alog>>
restvars == <<resvars, instvars, locvars, bldvars, helpvars>>
\* What the operations on the helpers leave alone.
nothelp == <<ctxvars, walkvars, mgrvars, resvars, instvars, locvars, bldvars>>
\* What the operations on contexts leave alone.
notctx == <<walkvars, mgrvars, restvars>>
vars == <<ctxvars, walkvars, mgrvars, restvars>>

Heap == [ctxs |-> ctxs, paths |-> paths, cells |-> cells, extras |-> extras]

Ctx == 1..Len(ctxs)

\* ------------------------------------------------------- InferenceContext

\* `self.path = path or set()`: a None or empty argument is falsy.  The optional
\* argument is <<>> for None and <<s>> for the set s.
init_path(path) == IF path = <<>> \/ path = <<{}>> THEN {} ELSE path[1]

\* InferenceContext(path, nodes_inferred): `path` is <<>> (None) or <<s>>, s the
\* value of a set object nobody else holds (clone hands in a copy); `cell` is 0
\* for None or the index of the list to share.  Returns the new heap and the new context.
InferenceContext(H, path, cell) ==
    LET newcell == IF cell = 0 THEN Len(H.cells) + 1 ELSE cell
        c == [path        |-> Len(H.paths) + 1,
              cell        |-> newcell,
              lookupname  |-> None,
              callcontext |-> None,
              boundnode   |-> None,
              extra       |-> Len(H.extras) + 1]
    IN  [heap |-> [ctxs   |-> Append(H.ctxs, c),
                   paths  |-> Append(H.paths, init_path(path)),
                   cells  |-> IF cell = 0 THEN Append(H.cells, 0) ELSE H.cells,
                   extras |-> Append(H.extras, {})],
         new  |-> Len(H.ctxs) + 1]

\* The nodes_inferred property: getter and setter.
nodes_inferred(H, c) == H.cells[H.ctxs[c].cell]

set_nodes_inferred(H, c, value) ==
    [H EXCEPT !.cells[H.ctxs[c].cell] = value]

\* The visited set of context c.
PathOf(H, c) == H.paths[H.ctxs[c].path]

\* A push that looks the node up whatever the lookup name.
push_ignores_name(H, c, node) ==
    LET name == H.ctxs[c].lookupname
    IN  IF \E p \in PathOf(H, c) : p[1] = node
        THEN [heap |-> H, ret |-> "True"]
        ELSE [heap |-> [H EXCEPT !.paths[H.ctxs[c].path] = @ \cup {<<node, name>>}],
              ret  |-> "False"]

\* A push that reports an unseen pair without recording it.
push_forgets(H, c, node) ==
    LET name == H.ctxs[c].lookupname
    IN  IF <<node, name>> \in PathOf(H, c)
        THEN [heap |-> H, ret |-> "True"]
        ELSE [heap |-> H, ret |-> "False"]

\* push(node): True when (node, lookupname) is already in the path, else the
\* pair is added and False is returned.
push(H, c, node) ==
    LET name == H.ctxs[c].lookupname
    IN  IF <<node, name>> \in PathOf(H, c)
        THEN [heap |-> H, ret |-> "True"]
        ELSE [heap |-> [H EXCEPT !.paths[H.ctxs[c].path] = @ \cup {<<node, name>>}],
              ret  |-> "False"]

\* A clone that gets a counter list of its own, holding the value of the original.
clone_own_counter(H, c) ==
    LET r == InferenceContext(H, <<PathOf(H, c)>>, 0)
        k == r.new
    IN  [heap |-> [ctxs   |-> [r.heap.ctxs EXCEPT
                                  ![k].callcontext = H.ctxs[c].callcontext,
                                  ![k].boundnode   = H.ctxs[c].boundnode,
                                  ![k].extra       = H.ctxs[c].extra],
                   paths  |-> r.heap.paths,
                   cells  |-> [r.heap.cells EXCEPT ![r.heap.ctxs[k].cell] =
                                  nodes_inferred(H, c)],
                   extras |-> H.extras],
         new  |-> k]

\* A clone that does not carry the bound node over.
clone_without_boundnode(H, c) ==
    LET r == InferenceContext(H, <<PathOf(H, c)>>, H.ctxs[c].cell)
        k == r.new
    IN  [heap |-> [ctxs   |-> [r.heap.ctxs EXCEPT
                                  ![k].callcontext = H.ctxs[c].callcontext,
                                  ![k].extra       = H.ctxs[c].extra],
                   paths  |-> r.heap.paths,
                   cells  |-> r.heap.cells,
                   extras |-> H.extras],
         new  |-> k]

\* A clone that keeps the path object of the original instead of a copy.
clone_shared_path(H, c) ==
    [heap |-> [H EXCEPT !.ctxs = Append(@, [H.ctxs[c] EXCEPT !.lookupname = None])],
     new  |-> Len(H.ctxs) + 1]

\* clone(): a new context over a copy of the path and the same counter list;
\* callcontext, boundnode and extra_context are assigned from self (the dict by
\* reference), lookupname is left as __init__ set it.
clone(H, c) ==
    LET r == InferenceContext(H, <<PathOf(H, c)>>, H.ctxs[c].cell)
        k == r.new
    IN  [heap |-> [ctxs   |-> [r.heap.ctxs EXCEPT
                                  ![k].callcontext = H.ctxs[c].callcontext,
                                  ![k].boundnode   = H.ctxs[c].boundnode,
                                  ![k].extra       = H.ctxs[c].extra],
                   paths  |-> r.heap.paths,
                   cells  |-> r.heap.cells,
                   \* the dict __init__ made for the clone is dropped
                   extras |-> H.extras],
         new  |-> k]

\* copy_context(context): a clone if given, else a fresh context.
copy_context(H, c) ==
    IF c # 0 THEN clone(H, c) ELSE InferenceContext(H, <<>>, 0)

\* A binding made on the caller's own context instead of a copy.
bind_in_place(H, c, node) ==
    IF c = 0
    THEN LET r == InferenceContext(H, <<>>, 0)
         IN  [heap |-> [r.heap EXCEPT !.ctxs[r.new].boundnode = node], new |-> r.new]
    ELSE [heap |-> [H EXCEPT !.ctxs[c].boundnode = node], new |-> c]

\* bind_context_to_node(context, node)
bind_context_to_node(H, c, node) ==
    LET r == copy_context(H, c)
    IN  [heap |-> [r.heap EXCEPT !.ctxs[r.new].boundnode = node],
         new  |-> r.new]

\* One step of an inference run under context c: a value is yielded and counted
\* on the shared counter, unless the counter has reached the cap, when the run
\* stops without a value.
infer_step(H, c) ==
    IF nodes_inferred(H, c) >= max_inferred
    THEN [heap |-> H, ret |-> "Stop"]
    ELSE [heap |-> set_nodes_inferred(H, c, nodes_inferred(H, c) + 1),
          ret  |-> "Yield"]

\* The fork of an inference walk at a definition expanded under context c: for
\* each name the definition refers to, in order, a clone of c with that lookup
\* name, to enter the definition of the name with.
RECURSIVE fork(_, _, _)
fork(H, c, targets) ==
    IF targets = <<>>
    THEN [heap |-> H, frames |-> <<>>]
    ELSE LET r == clone(H, c)
             h == [r.heap EXCEPT !.ctxs[r.new].lookupname = NameOf(Head(targets))]
             rest == fork(h, c, Tail(targets))
         IN  [heap   |-> rest.heap,
              frames |-> <<(<<r.new, Head(targets)>>)>> \o rest.frames]

\* ------------------------------------------------------------ the manager
\* File paths asked of ast_from_file and carried by live modules.
FilePaths == {"/A.py", "/A.pyc", "/B.py", "/N.so"}
\* Paths handed to string_build (None: no path; "B.py" is relative).
StringPaths == {None, "/A.py", "B.py"}
\* Module names handed in (None: not given).
ModNames == {None, "m", "p.__init__"}
\* Live module objects: name, __file__ (None: no such attribute) and whether a
\* loader gives their source.
LiveModules ==
    { [name |-> "m", file |-> "/A.py", source |-> TRUE],
      [name |-> "m", file |-> "/B.py", source |-> FALSE],
      [name |-> "k", file |-> "/N.so", source |-> FALSE],
      [name |-> "k", file |-> None, source |-> FALSE] }

\* get_source_file(path, include_no_ext=True): the source file beside the path,
\* None standing for NoSourceFile.  Here /A.py and /B.py exist.
get_source_file(path) ==
    CASE path = "/A.py"  -> "/A.py"
      [] path = "/A.pyc" -> "/A.py"
      [] path = "/B.py"  -> "/B.py"
      [] OTHER           -> None

\* ".".join(modpath_from_file(path)): the dotted name of a file on the search
\* path, None standing for ImportError.  Here only /A.py is on the search path.
modpath_from_file(path) == IF path = "/A.py" THEN "m" ELSE None

\* os.path.abspath, the working directory being /.
abspath(path) == IF path = "B.py" THEN "/B.py" ELSE path

\* os.path.splitext(path)[1] in {".py", ".pyc", ".pyo"}
HasPyExt(path) == path \in {"/A.py", "/A.pyc", "/B.py", "B.py"}

\* modname[:-9] when modname ends with "__init__"
EndsWithInit(modname) == modname = "p.__init__"
StripInit(modname) == IF EndsWithInit(modname) THEN "p" ELSE modname

Mgr == [modules |-> modules, ast_cache |-> ast_cache]

Raise(M, exc, via) ==
    [state |-> M, res |-> [out |-> "raise", mod |-> 0, via |-> via, exc |-> exc]]
Return(M, k, via) ==
    [state |-> M, res |-> [out |-> "module", mod |-> k, via |-> via, exc |-> None]]

\* Manager.cache_module(module): the module is registered under its name.
cache_module(M, k) ==
    [M EXCEPT !.ast_cache = (M.modules[k].name :> k) @@ @]

\* Builder._data_build(data, modname, path): parsing fails (the ValueError made
\* with keyword arguments is a TypeError) or a new Module is made.
data_build(M, parses, modname, path) ==
    IF ~parses
    THEN Raise(M, "TypeError", "string_build")
    ELSE LET m == [name    |-> StripInit(modname),
                   file    |-> IF path # None THEN abspath(path) ELSE "<?>",
                   package |-> EndsWithInit(modname)]
         IN  Return([M EXCEPT !.modules = Append(@, m)], Len(M.modules) + 1,
                    "string_build")

\* Builder._post_build(module, builder, encoding): the module is cached, then
\* the deferred steps and the transforms run on it.
post_build(M, k) == Return(cache_module(M, k), k, "string_build")

\* Builder.string_build(data, modname, path)
string_build(M, parses, modname, path) ==
    LET d == data_build(M, parses, modname, path)
    IN  IF d.res.out = "raise" THEN d ELSE post_build(d.state, d.res.mod)

\* Builder.file_build(path, modname): the file cannot be opened (again a
\* ValueError made with keyword arguments), or line 91 reads its own targets
\* `module` and `builder` before they are bound.
file_build(M, readable, path, modname) ==
    IF ~readable
    THEN Raise(M, "TypeError", "file_build")
    ELSE Raise(M, "UnboundLocalError", "file_build")

\* The name ast_from_file looks up.
FileModname(filepath, modname) ==
    IF modname # None THEN modname
    ELSE IF modpath_from_file(filepath) # None THEN modpath_from_file(filepath)
    ELSE filepath

\* The path ast_from_file goes on with: the source file when there is one.
ResolvedPath(filepath) ==
    IF get_source_file(filepath) # None THEN get_source_file(filepath) ELSE filepath

\* An ast_from_file that returns whatever the cache holds under the name.
ast_from_file_any_path(M, filepath, modname, fallback, source, readable) ==
    LET fp == ResolvedPath(filepath)
        src == get_source_file(filepath) # None \/ source
        name == FileModname(fp, modname)
    IN  IF name \in DOMAIN M.ast_cache
        THEN Return(M, M.ast_cache[name], "cache")
        ELSE IF src THEN file_build(M, readable, fp, name)
        ELSE IF fallback /\ name # ""
        THEN [state |-> M,
              res |-> [out |-> "delegated", mod |-> 0,
                       via |-> "ast_from_module_name", exc |-> None]]
        ELSE Raise(M, "TypeError", "ast_from_file")

\* Manager.ast_from_file(filepath, modname, fallback, source)
ast_from_file(M, filepath, modname, fallback, source, readable) ==
    LET fp == ResolvedPath(filepath)
        src == get_source_file(filepath) # None \/ source
        name == FileModname(fp, modname)
    IN  IF name \in DOMAIN M.ast_cache /\ M.modules[M.ast_cache[name]].file = fp
        THEN Return(M, M.ast_cache[name], "cache")
        ELSE IF src THEN file_build(M, readable, fp, name)
        ELSE IF fallback /\ name # ""
        \* ast_from_module_name is not among the manager's methods here: the
        \* call is recorded, its outcome is not modelled
        THEN [state |-> M,
              res |-> [out |-> "delegated", mod |-> 0,
                       via |-> "ast_from_module_name", exc |-> None]]
        \* ValueError made with a keyword argument
        ELSE Raise(M, "TypeError", "ast_from_file")

\* Builder.inspect_build(module, modname, path): a partial Module made by
\* introspection of a built-in module.
inspect_build(M, module, modname) ==
    LET m == [name    |-> IF modname # None THEN modname ELSE module.name,
              file    |-> IF module.file # None THEN module.file ELSE "<?>",
              package |-> FALSE]
    IN  Return([M EXCEPT !.modules = Append(@, m)], Len(M.modules) + 1,
               "module_build")

\* Builder.module_build(module, modname).  `asserts` is whether the interpreter
\* runs assert statements: line 53 reads the attribute Module of the node.
module_build(M, module, modname, parses, asserts) ==
    LET name == IF modname # None THEN modname ELSE module.name
        built == IF module.source
                 THEN string_build(M, parses, name, module.file)
                 ELSE Return(M, 0, "module_build")
    IN  IF built.res.out = "raise" THEN built
        ELSE IF built.res.mod = 0 /\ module.file # None /\ HasPyExt(module.file)
        \* os.path.exists(path_, +".py"): unary plus on a string
        THEN Raise(built.state, "TypeError", "module_build")
        ELSE LET node == IF built.res.mod = 0
                         THEN inspect_build(built.state, module, modname)
                         ELSE built
             IN  IF asserts
                 THEN Raise(node.state, "AttributeError", "module_build")
                 ELSE Return(node.state, node.res.mod, "module_build")

\* Manager.ast_from_module(module, modname).  `python_build` is what
\* sysconfig.is_python_build answers in this interpreter.
ast_from_module(M, module, modname, python_build, readable, parses, asserts) ==
    LET name == IF modname # None THEN modname ELSE module.name
    IN  IF name \in DOMAIN M.ast_cache
        THEN Return(M, M.ast_cache[name], "cache")
        ELSE IF module.file # None /\ python_build
        THEN ast_from_file(M, module.file, name, FALSE, FALSE, readable)
        ELSE module_build(M, module, name, parses, asserts)

\* The manager after a call, mret keeping the call and how it ended.
SetMgr(r, call) ==
    /\ modules' = r.state.modules
    /\ ast_cache' = r.state.ast_cache
    /\ mret' = [out |-> r.res.out, mod |-> r.res.mod, via |-> r.res.via,
                exc |-> r.res.exc, call |-> call]

\* No module is built or cached yet.
InitMgr ==
    /\ modules = <<>>
    /\ ast_cache = <<>>
    /\ mret = [out |-> None, mod |-> 0, via |-> None, exc |-> None, call |-> <<>>]

\* parse(code, module_name, path) / Builder.string_build
StringBuild(parses, modname, path) ==
    /\ SetMgr(string_build(Mgr, parses, modname, path),
              <<"string_build", modname, path>>)
    /\ UNCHANGED <<ctxvars, walkvars, restvars>>

\* Manager().ast_from_file(filepath, modname, fallback, source)
AstFromFile(filepath, modname, fallback, source, readable) ==
    /\ SetMgr(ast_from_file(Mgr, filepath, modname, fallback, source, readable),
              <<"ast_from_file", filepath, modname>>)
    /\ UNCHANGED <<ctxvars, walkvars, restvars>>

\* Manager().ast_from_module(module, modname)
AstFromModule(module, modname, python_build, readable, parses, asserts) ==
    /\ SetMgr(ast_from_module(Mgr, module, modname, python_build, readable,
                              parses, asserts),
              <<"ast_from_module", module, modname>>)
    /\ UNCHANGED <<ctxvars, walkvars, restvars>>

\* ------------------------------------------------- the resolution cache
\* Module names and context files handed to file_from_module_name.
ResModNames == {"m", "x"}
ContextFiles == {None, "/A.py"}
ResKeys == ResModNames \X ContextFiles
\* The module names no file can be found for (a missing import).
MissingModNames == {"x"}

\* isinstance(value, ValueError)
IsValueError(value) == value.kind = "ValueError"

\* Manager.file_from_module_name(modname, contextfile) on the resolution cache
\* R.  On a miss the argument of file_info_from_modpath is evaluated first:
\* modname.split(".", context_file=contextfile) hands str.split a keyword it
\* does not take, a TypeError that `except ImportError` does not catch, so
\* file_info_from_modpath is not called and line 130 is not reached.
file_from_module_name(R, modname, contextfile) ==
    LET key == <<modname, contextfile>>
    IN  IF key \in DOMAIN R
        THEN [cache |-> R, hook |-> FALSE, via |-> "cache",
              out |-> IF IsValueError(R[key]) THEN "raise" ELSE "return",
              value |-> R[key]]
        ELSE [cache |-> R, hook |-> FALSE, via |-> "split",
              out |-> "raise", value |-> [kind |-> "TypeError"]]

\* Nothing was looked up yet.
InitRes ==
    /\ mod_file_cache = <<>>
    /\ hook_calls = [k \in ResKeys |-> 0]
    /\ lookups = [k \in ResKeys |-> 0]
    /\ fret = [out |-> None, value |-> None, via |-> None, call |-> <<>>]

\* ------------------------------------------------------ Manager instances
\* The number of Manager instances a run creates.
MaxManagers == 3
\* The entries written into the resolution cache through an instance.
InsertedKeys == {<<"m", None>>, <<"x", None>>}
InsertedValues == {[kind |-> "location"], [kind |-> "ImportError"]}

Insts == [managers |-> managers, dicts |-> dicts]

\* A Manager.__init__ that makes dicts of its own.
Manager_init_own_dicts(S) ==
    [managers |-> Append(S.managers, [ast_cache |-> Len(S.dicts) + 1,
                                      mod_file_cache |-> Len(S.dicts) + 2,
                                      init |-> "KeyError"]),
     dicts |-> S.dicts \o << <<>>, <<>> >>]

\* Manager.__init__: the attributes reference the dicts of the class
\* attribute Manager.brain (lines 28-29).  Line 33 then reads the key
\* "extention_package_whitelist", which Manager.brain does not have: the
\* instance keeps the attributes bound so far and the constructor ends in a
\* KeyError.
Manager_init(S) ==
    [managers |-> Append(S.managers, [ast_cache |-> 0, mod_file_cache |-> 0,
                                      init |-> "KeyError"]),
     dicts |-> S.dicts]

\* The dict an attribute of an instance references.
Deref(ref, brain_dict) == IF ref = 0 THEN brain_dict ELSE dicts[ref]
\* manager.ast_cache and manager._mod_file_cache of instance i
AstCacheOf(i) == Deref(managers[i].ast_cache, ast_cache)
ModFileCacheOf(i) == Deref(managers[i].mod_file_cache, mod_file_cache)

\* No Manager was made yet.
InitInst ==
    /\ managers = <<>>
    /\ dicts = <<>>
    /\ inserted = [inst |-> 0, of |-> 0]

\* Manager()
NewManager ==
    /\ managers' = Manager_init(Insts).managers
    /\ dicts' = Manager_init(Insts).dicts
    /\ UNCHANGED <<inserted, ctxvars, walkvars, helpvars,
                   mgrvars, resvars, locvars, bldvars>>

\* The dict referenced by ref becomes d.
StoreAst(ref, d) ==
    IF ref = 0
    THEN ast_cache' = d /\ UNCHANGED dicts
    ELSE dicts' = [dicts EXCEPT ![ref] = d] /\ UNCHANGED ast_cache
StoreModFile(ref, d) ==
    IF ref = 0
    THEN mod_file_cache' = d /\ UNCHANGED dicts
    ELSE dicts' = [dicts EXCEPT ![ref] = d] /\ UNCHANGED mod_file_cache

\* Builder(managers[i]).string_build(data, modname, path): the module is
\* cached in the ast_cache of instance i.
StringBuildVia(i, modname, path) ==
    LET r == string_build([modules |-> modules, ast_cache |-> AstCacheOf(i)],
                          TRUE, modname, path)
    IN  /\ modules' = r.state.modules
        /\ StoreAst(managers[i].ast_cache, r.state.ast_cache)
        /\ inserted' = [inst |-> i, of |-> Len(managers)]
        /\ UNCHANGED <<managers, mret, ctxvars, walkvars,
                       helpvars, resvars, locvars, bldvars>>

\* managers[i]._mod_file_cache[key] = value
InsertModFile(i, key, value) ==
    /\ StoreModFile(managers[i].mod_file_cache,
                    (key :> value) @@ ModFileCacheOf(i))
    /\ inserted' = [inst |-> i, of |-> Len(managers)]
    /\ UNCHANGED <<managers, ast_cache, modules, mret, hook_calls, lookups, fret,
                   ctxvars, walkvars, helpvars, locvars, bldvars>>

\* ------------------------------------------------ deferred import nodes
\* The number of nodes inserted into the locals of one scope.
MaxLocals == 4
\* A fromlineno of None (the node has no line).
NoLine == 0 - 1
\* fromlineno of a node.
Linenos == {NoLine, 0, 2, 5}
\* The names bound in the runs over one scope.
LocalNames == {"a"}

\* _key_func(node): node.fromlineno or 0
key_func(node) == IF node.fromlineno = NoLine THEN 0 ELSE node.fromlineno

\* list.sort(key=_key_func), a stable sort: the list with node x put after
\* the last element whose key is not above the key of x.
RECURSIVE InsertSorted(_, _)
InsertSorted(sorted, x) ==
    IF sorted = <<>> THEN <<x>>
    ELSE IF key_func(sorted[Len(sorted)]) <= key_func(x) THEN Append(sorted, x)
    ELSE Append(InsertSorted(SubSeq(sorted, 1, Len(sorted) - 1), x),
                sorted[Len(sorted)])

\* A sort_locals that puts a node after the later nodes of the same line.
RECURSIVE sort_locals_unstable(_)
sort_locals_unstable(my_list) ==
    IF my_list = <<>> THEN <<>>
    ELSE LET rest == sort_locals_unstable(Tail(my_list))
             x == Head(my_list)
             before == SelectSeq(rest, LAMBDA y : key_func(y) <= key_func(x))
             after == SelectSeq(rest, LAMBDA y : key_func(y) > key_func(x))
         IN  before \o <<x>> \o after

\* sort_locals(my_list): my_list.sort(key=_key_func)
RECURSIVE sort_locals(_)
sort_locals(my_list) ==
    IF my_list = <<>> THEN <<>>
    ELSE InsertSorted(sort_locals(SubSeq(my_list, 1, Len(my_list) - 1)),
                      my_list[Len(my_list)])

\* node.parent.set_local(name, node): the node is appended to the list of the
\* nodes defining the name.
set_local(L, name, node) ==
    IF name \in DOMAIN L
    THEN [L EXCEPT ![name] = Append(@, node)]
    ELSE (name :> <<node>>) @@ L

\* One name bound to the node, and the list of the name sorted.
BindLocal(L, name, node) ==
    LET L2 == set_local(L, name, node)
    IN  [L2 EXCEPT ![name] = sort_locals(@)]

RECURSIVE BindAll(_, _, _)
BindAll(L, names, node) ==
    IF names = <<>> THEN L
    ELSE BindAll(BindLocal(L, Head(names), node), Tail(names), node)

\* An add_from_names_to_locals that gives up the node at a star import whose
\* module cannot be imported.
RECURSIVE add_from_names_until_star(_, _, _)
add_from_names_until_star(L, node, names) ==
    IF names = <<>> THEN L
    ELSE LET name == Head(names)[1]
             asname == Head(names)[2]
         IN  IF name = "*" /\ ~node.resolves THEN L
             ELSE add_from_names_until_star(
                      IF name = "*" THEN BindAll(L, node.imported, node)
                      ELSE BindLocal(L, IF asname # None THEN asname ELSE name, node),
                      node, Tail(names))

\* Builder.add_from_names_to_locals(node) on the locals L of the parent's
\* scope.  node.names is a sequence of <<name, asname>>; node.resolves is
\* whether node.do_import_module() returns (it raises ValueError otherwise)
\* and node.imported the public names of the module it returns.
RECURSIVE add_from_names_to_locals(_, _, _)
add_from_names_to_locals(L, node, names) ==
    IF names = <<>> THEN L
    ELSE LET name == Head(names)[1]
             asname == Head(names)[2]
             L2 == IF name = "*"
                   THEN IF ~node.resolves THEN L
                        ELSE BindAll(L, node.imported, node)
                   ELSE BindLocal(L, IF asname # None THEN asname ELSE name, node)
         IN  add_from_names_to_locals(L2, node, Tail(names))

InitLoc ==
    /\ locals = <<>>
    /\ added = 0

\* add_from_names_to_locals on a node of module k that imports the name at the
\* line.
AddFromNames(k, name, lineno) ==
    LET node == [id |-> added + 1, fromlineno |-> lineno,
                 names |-> << <<name, None>> >>, resolves |-> TRUE,
                 imported |-> <<>>]
    IN  /\ locals' = [locals EXCEPT
                         ![k] = add_from_names_to_locals(@, node, node.names)]
        /\ added' = added + 1
        /\ UNCHANGED <<ctxvars, walkvars, helpvars,
                       mgrvars, resvars, instvars, bldvars>>

\* ----------------------------------------------------- the steps of a build
\* The sessions that build modules.
Sessions == {1, 2}
\* The number of deferred nodes of each kind in one source.
MaxDeferred == 2

\* The import-from nodes of the sources: a star import of a module that cannot
\* be imported, followed by a name; a name imported under another name; a star
\* import of a module with two public names.
ImportNodes ==
    { [id |-> 1, fromlineno |-> 5, names |-> << <<"*", None>>, <<"a", None>> >>,
       resolves |-> FALSE, imported |-> <<>>],
      [id |-> 2, fromlineno |-> 2, names |-> << <<"b", "a">> >>,
       resolves |-> TRUE, imported |-> <<>>],
      [id |-> 3, fromlineno |-> 8, names |-> << <<"*", None>> >>,
       resolves |-> TRUE, imported |-> <<"a", "c">>] }

\* The delayed attribute assignments of the sources, with what the inference of
\* the target gives: it raises ValueError, it gives a value that cannot take the
\* attribute, or it gives an instance that can; frame is the function the
\* assignment stands in.
DelayedNodes ==
    { [id |-> 1, infer |-> "ValueError", frame |-> "f"],
      [id |-> 2, infer |-> "cannot", frame |-> "f"],
      [id |-> 3, infer |-> "ok", frame |-> "f"],
      [id |-> 4, infer |-> "ok", frame |-> "__init__"] }

\* The sequences of up to n distinct elements of S.
DistinctSeqs(S, n) ==
    { q \in UNION { [1..k -> S] : k \in 0..n } :
        \A i, j \in 1..Len(q) : i # j => q[i] # q[j] }

\* What a source text holds, as far as the builder goes: whether it parses, its
\* import-from nodes and delayed attribute assignments in the order of the
\* text, and whether a registered transform raises.
Sources ==
    [parses : BOOLEAN,
     imports : DistinctSeqs(ImportNodes, MaxDeferred),
     delayed : DistinctSeqs(DelayedNodes, MaxDeferred),
     transform : {"ok", "raises"}]

\* The sources a loader gives for a live module: one deferred node of each kind
\* at most; a module without source has no nodes.
LoaderSources(module) ==
    { src \in Sources :
        /\ Len(src.imports) <= 1
        /\ Len(src.delayed) <= 1
        /\ ~module.source =>
              src.parses /\ src.imports = <<>> /\ src.delayed = <<>> }

Step(op, arg) == [op |-> op, arg |-> arg]

\* A _post_build that registers the module in the cache after the deferred steps.
post_build_caches_last(src, apply) ==
    [i \in 1..Len(src.imports) |-> Step("add_from_names_to_locals", i)]
    \o [i \in 1..Len(src.delayed) |-> Step("delayed_assattr", i)]
    \o <<Step("cache_module", 0)>>
    \o (IF apply THEN <<Step("visit_transforms", 0)>> ELSE <<>>)

\* Builder._post_build(module, builder, encoding): the calls it makes, in order.
post_build_steps(src, apply) ==
    <<Step("cache_module", 0)>>
    \o [i \in 1..Len(src.imports) |-> Step("add_from_names_to_locals", i)]
    \o [i \in 1..Len(src.delayed) |-> Step("delayed_assattr", i)]
    \o (IF apply THEN <<Step("visit_transforms", 0)>> ELSE <<>>)

\* A module_build that visits the transforms whatever built the node.
module_build_visits_again(from_source, src, apply) ==
    (IF from_source THEN post_build_steps(src, apply) ELSE <<>>)
    \o (IF apply THEN <<Step("visit_transforms", 0)>> ELSE <<>>)
    \o <<Step("assert", 0)>>

\* Builder.module_build(module, modname) after the node was made: string_build
\* ran _post_build on a node built from the loader's source; a node built by
\* inspect_build gets the transforms here; line 53 asserts on either.
module_build_steps(from_source, src, apply) ==
    (IF from_source THEN post_build_steps(src, apply)
     ELSE IF apply THEN <<Step("visit_transforms", 0)>> ELSE <<>>)
    \o <<Step("assert", 0)>>

\* A delayed_assattr that lets the ValueError of the inference out.
delayed_assattr_fatal(values, node) ==
    IF node.infer = "ValueError"
    THEN [values |-> values, raised |-> "ValueError"]
    ELSE [values |-> IF node.infer = "ok" THEN Append(values, node) ELSE values,
          raised |-> None]

\* Builder.delayed_assattr(node) on the list `values` of the nodes assigning
\* the attribute.
delayed_assattr(values, node) ==
    CASE node.infer = "ValueError" ->
            \* except ValueError: pass
            [values |-> values, raised |-> None]
      [] node.infer = "cannot" ->
            \* not _can_assign_attr(...), or AttributeError: continue
            [values |-> values, raised |-> None]
      [] OTHER ->
            [values |->
                IF \E i \in 1..Len(values) : values[i] = node THEN values
                ELSE IF /\ node.frame = "__init__"
                        /\ values # <<>>
                        /\ values[1].frame # "__init__"
                THEN <<node>> \o values
                ELSE Append(values, node),
             raised |-> None]

Idle ==
    [pc |-> "idle", entry |-> None, mod |-> 0, todo |-> <<>>, out |-> None,
     at |-> None, apply |-> FALSE, asserts |-> FALSE, before |-> <<>>,
     src |-> [parses |-> TRUE, imports |-> <<>>, delayed |-> <<>>,
              transform |-> "ok"]]

\* No session builds anything yet.
InitBld ==
    /\ work = <<>>
    /\ sess = [s \in Sessions |-> Idle]

\* The session after the call that made its node: it raised, or a new Module
\* stands at the end of the heap and the steps `todo` are ahead.
Started(s, entry, d, todo, src, apply, asserts) ==
    /\ modules' = d.state.modules
    /\ IF d.res.out = "raise"
       THEN /\ sess' = [sess EXCEPT ![s] =
                           [Idle EXCEPT !.pc = "raised", !.entry = entry,
                                        !.out = d.res.exc, !.at = d.res.via,
                                        !.before = ast_cache]]
            /\ UNCHANGED <<locals, work>>
       ELSE /\ sess' = [sess EXCEPT ![s] =
                           [Idle EXCEPT !.pc = "running", !.entry = entry,
                                        !.mod = d.res.mod, !.todo = todo,
                                        !.src = src, !.apply = apply,
                                        !.asserts = asserts,
                                        !.before = ast_cache]]
            /\ locals' = Append(locals, <<>>)
            /\ work' = Append(work, [events |-> <<>>, attrs |-> <<>>,
                                       transforms |-> 0])
    /\ UNCHANGED <<ast_cache, mret, added, ctxvars,
                   walkvars, helpvars, resvars, instvars>>

\* Session s calls Builder(apply_transforms=apply).string_build(data, modname,
\* path) on the source src: _data_build runs.
BuildStart(s, modname, path, src, apply) ==
    /\ sess[s].pc = "idle"
    /\ Started(s, "string_build",
               data_build(Mgr, src.parses, modname, path),
               post_build_steps(src, apply), src, apply, FALSE)

\* Session s calls Builder(apply_transforms=apply).module_build(module): the
\* node is made from the loader's source, or by inspect_build.
ModuleBuildStart(s, module, src, apply, asserts) ==
    /\ sess[s].pc = "idle"
    /\ Started(s, "module_build",
               IF module.source
               THEN data_build(Mgr, src.parses, module.name, module.file)
               ELSE IF module.file # None /\ HasPyExt(module.file)
               THEN Raise(Mgr, "TypeError", "module_build")
               ELSE inspect_build(Mgr, module, module.name),
               module_build_steps(module.source, src, apply), src, apply, asserts)

\* Session s runs the next call of its build.
BuildStep(s) ==
    LET b == sess[s]
        k == b.mod
        step == Head(b.todo)
        rest == Tail(b.todo)
        node == b.src.imports[step.arg]
        d == delayed_assattr(work[k].attrs, b.src.delayed[step.arg])
        exc == CASE step.op = "delayed_assattr" -> d.raised
                 [] step.op = "visit_transforms" ->
                        IF b.src.transform = "raises" THEN "Error" ELSE None
                 [] step.op = "assert" ->
                        IF b.asserts THEN "AttributeError" ELSE None
                 [] OTHER -> None
    IN  /\ b.pc = "running"
        /\ ast_cache' = IF step.op = "cache_module"
                        THEN cache_module(Mgr, k).ast_cache ELSE ast_cache
        /\ locals' = IF step.op = "add_from_names_to_locals"
                     THEN [locals EXCEPT ![k] =
                              add_from_names_to_locals(@, node, node.names)]
                     ELSE locals
        /\ work' = [work EXCEPT ![k] =
                       [events |-> Append(@.events, step),
                        attrs |-> IF step.op = "delayed_assattr"
                                  THEN d.values ELSE @.attrs,
                        transforms |-> IF step.op = "visit_transforms" /\ exc = None
                                       THEN @.transforms + 1 ELSE @.transforms]]
        /\ sess' = [sess EXCEPT ![s] =
                       IF exc # None
                       THEN [b EXCEPT !.pc = "raised", !.out = exc,
                                      !.at = step.op, !.todo = <<>>]
                       ELSE IF rest = <<>>
                       THEN [b EXCEPT !.pc = "returned", !.out = "module",
                                      !.todo = <<>>]
                       ELSE [b EXCEPT !.todo = rest]]
        /\ UNCHANGED <<modules, mret, added, ctxvars,
                       walkvars, helpvars, resvars, instvars>>

\* ------------------------------------------------------ parsing a string
\* The number of calls of _parse_string a run keeps in its history.
MaxParses == 2
\* How one call of parser_module.parse ends: it returns the tree, or raises
\* a SyntaxError whose args[0] is the message, or an error that is not a
\* SyntaxError.
MISPLACED_TYPE_ANNOTATION_ERROR == "misplaced type annotation"
ParseOutcomes ==
    {"ok", MISPLACED_TYPE_ANNOTATION_ERROR, "invalid syntax", "ValueError"}
IsSyntaxError(outcome) ==
    outcome \in {MISPLACED_TYPE_ANNOTATION_ERROR, "invalid syntax"}

\* One call parser_module.parse(data + "\n", type_comments=...) and its end.
ParseCall(type_comments, outcome) ==
    [type_comments |-> type_comments, outcome |-> outcome]

\* A _parse_string that tries again after every SyntaxError.
parse_string_retry_any(type_comments, first, second) ==
    IF first = "ok"
    THEN [calls |-> <<ParseCall(type_comments, first)>>, out |-> "return",
          exc |-> None, handle |-> type_comments]
    ELSE IF ~IsSyntaxError(first)
    THEN [calls |-> <<ParseCall(type_comments, first)>>, out |-> "raise",
          exc |-> first, handle |-> type_comments]
    ELSE [calls |-> <<ParseCall(type_comments, first), ParseCall(FALSE, second)>>,
          out |-> IF second = "ok" THEN "return" ELSE "raise",
          exc |-> IF second = "ok" THEN None ELSE second,
          handle |-> FALSE]

\* _parse_string(data, type_comments): `first` is how parse ends on the data
\* with the support of type comments asked for, `second` how it ends on the
\* data without the support.  `handle` is the support of the parser module
\* the call holds at its end.
parse_string(type_comments, first, second) ==
    IF first = "ok"
    THEN [calls |-> <<ParseCall(type_comments, first)>>, out |-> "return",
          exc |-> None, handle |-> type_comments]
    ELSE IF ~IsSyntaxError(first)
    THEN \* not caught by `except SyntaxError`
         [calls |-> <<ParseCall(type_comments, first)>>, out |-> "raise",
          exc |-> first, handle |-> type_comments]
    ELSE IF first # MISPLACED_TYPE_ANNOTATION_ERROR \/ ~type_comments
    THEN \* raise
         [calls |-> <<ParseCall(type_comments, first)>>, out |-> "raise",
          exc |-> first, handle |-> type_comments]
    ELSE [calls |-> <<ParseCall(type_comments, first), ParseCall(FALSE, second)>>,
          out |-> IF second = "ok" THEN "return" ELSE "raise",
          exc |-> IF second = "ok" THEN None ELSE second,
          handle |-> FALSE]

\* _parse_string(data, type_comments)
ParseString(type_comments, first, second) ==
    /\ Len(parse_log) < MaxParses
    /\ parse_log' = Append(parse_log, parse_string(type_comments, first, second))
    /\ UNCHANGED <<hret, classes, tret, iattrs, alog, nothelp>>

\* ------------------------------------------------ inferring a single value
\* The number of values one inference yields.
MaxInferred == 2
\* The kinds of value node.infer() yields: a ClassDef of the new style with
\* no metaclass, one with a metaclass, a function, a module, nodes.Unknown,
\* util.Uninferable, an instance (a Proxy) and a value of no handled kind.
Kinds == {"ClassDef", "MetaClassDef", "Lambda", "Module", "Unknown",
          "Uninferable", "Instance", "Other"}
\* What node.infer(context) does: it yields `values` in turn, and then
\* stops or raises InferenceError.
Streams(kinds) ==
    [values : SeqsUpTo(kinds, MaxInferred), ends : {"stop", "InferenceError"}]

\* The step of _object_type on one inferred value: the type it yields or the
\* exception it raises.  `raise InferenceContext` raises a class that is no
\* exception, which is a TypeError.
TypeOfInferred(inferred) ==
    CASE inferred = "ClassDef" -> [yield |-> "type", exc |-> None]
      [] inferred = "MetaClassDef" -> [yield |-> "metaclass", exc |-> None]
      [] inferred = "Lambda" -> [yield |-> "function", exc |-> None]
      [] inferred = "Module" -> [yield |-> "module", exc |-> None]
      [] inferred = "Unknown" -> [yield |-> None, exc |-> "TypeError"]
      [] inferred = "Uninferable" -> [yield |-> "Uninferable", exc |-> None]
      [] inferred = "Instance" -> [yield |-> "proxied", exc |-> None]
      [] OTHER -> [yield |-> None, exc |-> "AssertionError"]

\* set(_object_type(node, context)) once Manager() and builtins_module are
\* there: the types yielded up to the first exception, and that exception.
RECURSIVE object_type_loop(_, _, _)
object_type_loop(values, ends, types) ==
    IF values = <<>>
    THEN [types |-> types, exc |-> IF ends = "stop" THEN None ELSE ends]
    ELSE LET t == TypeOfInferred(Head(values))
         IN  IF t.exc # None THEN [types |-> types, exc |-> t.exc]
             ELSE object_type_loop(Tail(values), ends, types \cup {t.yield})

\* The end of a call of a helper.
Out(out, value) == [out |-> out, value |-> value]

\* An object_type whose _object_type gets its manager without a failure.
object_type_manager_made(stream) ==
    LET r == object_type_loop(stream.values, stream.ends, {})
    IN  IF r.exc = "InferenceError" THEN Out("return", "Uninferable")
        ELSE IF r.exc # None THEN Out("raise", r.exc)
        ELSE IF Cardinality(r.types) > 1 \/ r.types = {}
        THEN Out("return", "Uninferable")
        ELSE Out("return", CHOOSE t \in r.types : TRUE)

\* object_type(node): the generator _object_type first calls
\* manager.Manager(), whose __init__ ends in a KeyError; the exception leaves
\* set(...) and is not an InferenceError.
object_type(stream) ==
    LET made == Manager_init([managers |-> <<>>, dicts |-> <<>>]).managers[1]
    IN  IF made.init # None THEN Out("raise", made.init)
        ELSE object_type_manager_made(stream)

\* A safe_infer that returns the first value of several.
safe_infer_first(stream) ==
    IF stream.values = <<>> THEN Out("return", None)
    ELSE Out("return", stream.values[1])

\* safe_infer(node)
safe_infer(stream) ==
    IF stream.values = <<>>
    THEN \* except (InferenceError, StopIteration)
         Out("return", None)
    ELSE IF Len(stream.values) > 1
    THEN Out("return", None)
    ELSE IF stream.ends = "InferenceError"
    THEN Out("return", None)
    ELSE Out("return", stream.values[1])

\* A call of the helper `op` on a node whose inference is `stream`.  The
\* helpers keep no state: each run makes one call.
Helper(op, stream, r) ==
    /\ hret.op = None
    /\ hret' = [op |-> op, stream |-> stream, out |-> r.out, value |-> r.value]
    /\ UNCHANGED <<parse_log, classes, tret, iattrs, alog, nothelp>>

ObjectType(stream) == Helper("object_type", stream, object_type(stream))
SafeInfer(stream) == Helper("safe_infer", stream, safe_infer(stream))

\* ------------------------------------------------------ the class hierarchy
\* The ClassDef nodes of the runs.  bases[i] is the class the i-th base
\* expression infers to, 0 when it infers to no single class.  `known` is the
\* attribute _all_bases_known, "unset" while the node has none.
ClassDefs ==
    << [name |-> "object", bases |-> <<>>, newstyle |-> TRUE, known |-> "unset"],
       [name |-> "str", bases |-> <<1>>, newstyle |-> TRUE, known |-> "unset"],
       [name |-> "Sub", bases |-> <<2>>, newstyle |-> TRUE, known |-> "unset"],
       [name |-> "Self", bases |-> <<4>>, newstyle |-> TRUE, known |-> "unset"],
       [name |-> "A", bases |-> <<6>>, newstyle |-> TRUE, known |-> "unset"],
       [name |-> "B", bases |-> <<5>>, newstyle |-> TRUE, known |-> "unset"],
       [name |-> "Unres", bases |-> <<0>>, newstyle |-> TRUE, known |-> "unset"],
       [name |-> "Old", bases |-> <<>>, newstyle |-> FALSE, known |-> "unset"] >>
Klasses == 1..Len(ClassDefs)

\* The end of a call on the classes: the heap after it, how it ended, the
\* value or the exception, and the number of calls of safe_infer it made.
ClassOut(C, out, value, infers) ==
    [classes |-> C, out |-> out, value |-> value, infers |-> infers]

\* has_known_bases(klass): the attribute is returned when the node has it.
\* Otherwise the loop over klass.bases starts with
\* `result = safe_infer(result, ...)`, which reads the local `result` before
\* anything was assigned to it: the first base ends the call in an
\* UnboundLocalError, before safe_infer is called and with no attribute set.
\* A class with no base gets the attribute True.
has_known_bases(C, klass) ==
    IF C[klass].known # "unset"
    THEN ClassOut(C, "return", C[klass].known, 0)
    ELSE IF C[klass].bases # <<>>
    THEN ClassOut(C, "raise", "UnboundLocalError", 0)
    ELSE ClassOut([C EXCEPT ![klass].known = "True"], "return", "True", 0)

\* _type_check(type1, type2): all(map(has_known_bases, (type1, type2)))
\* calls has_known_bases on type1 and, if that is true, on type2.  Line 198
\* then calls all() with two arguments, a TypeError; the lines after it are
\* never reached.
type_check(C, type1, type2) ==
    LET h1 == has_known_bases(C, type1)
        h2 == has_known_bases(h1.classes, type2)
    IN  IF h1.out = "raise" THEN h1
        ELSE IF h1.value = "False"
        THEN ClassOut(h1.classes, "raise", "_NonDeducibleTypeHierarchy", 0)
        ELSE IF h2.out = "raise" THEN h2
        ELSE IF h2.value = "False"
        THEN ClassOut(h2.classes, "raise", "_NonDeducibleTypeHierarchy", 0)
        ELSE ClassOut(h2.classes, "raise", "TypeError", 0)

\* is_subtype(type1, type2): _type_check(type1=type2, type2=type1)
is_subtype(C, type1, type2) == type_check(C, type2, type1)
\* is_supertype(type1, type2): _type_check(type1, type2)
is_supertype(C, type1, type2) == type_check(C, type1, type2)

\* A call `op` on the classes `args`, ending as r.
ClassCall(op, args, r) ==
    /\ classes' = r.classes
    /\ tret' = [op |-> op, args |-> args, out |-> r.out, value |-> r.value,
                infers |-> r.infers]
    /\ UNCHANGED <<parse_log, hret, iattrs, alog, nothelp>>

HasKnownBases(klass) ==
    ClassCall("has_known_bases", <<klass>>, has_known_bases(classes, klass))
IsSubtype(type1, type2) ==
    ClassCall("is_subtype", <<type1, type2>>, is_subtype(classes, type1, type2))
IsSupertype(type1, type2) ==
    ClassCall("is_supertype", <<type1, type2>>,
              is_supertype(classes, type1, type2))

\* ------------------------------------------ delayed attribute assignments
\* The number of calls of delayed_assattr in a run.
MaxAssattr == 3
\* The entities with a table of attributes: a class, a class that cannot
\* take the attribute, a function and a module.
Entities == {"K", "Slots", "f", "mod"}
\* _can_assign_attr(klass, node.attrname)
CanAssignAttr(klass) == klass # "Slots"
\* What node.expr.infer() yields: util.Uninferable, a plain instance of a
\* class, an exception instance, a constant, a function, a module.
AssValues ==
    { [kind |-> "Uninferable", of |-> None],
      [kind |-> "Instance", of |-> "K"],
      [kind |-> "Instance", of |-> "Slots"],
      [kind |-> "ExceptionInstance", of |-> "K"],
      [kind |-> "Const", of |-> None],
      [kind |-> "Function", of |-> "f"],
      [kind |-> "Module", of |-> "mod"] }
\* The frames a delayed assignment stands in.
Frames == {"__init__", "setup"}

\* A try block of delayed_assattr in which objects.ExceptionInstance is
\* there: a function leaves the local `iattrs` as it was, bound or not.
assattr_target_objects(inferred, iat) ==
    CASE inferred.kind \in {"Instance", "ExceptionInstance"} ->
            [iat |-> inferred.of,
             next |-> IF CanAssignAttr(inferred.of) THEN "record" ELSE "continue"]
      [] inferred.kind = "Const" -> [iat |-> iat, next |-> "continue"]
      [] inferred.kind = "Function" ->
            [iat |-> iat,
             next |-> IF iat = None THEN "UnboundLocalError" ELSE "record"]
      [] OTHER -> [iat |-> inferred.of, next |-> "record"]

\* The try block of delayed_assattr (lines 183-209) on one inferred value:
\* the table the local `iattrs` references after it (iat, None while it is
\* unbound) and where the loop goes.  For a plain instance the local is bound
\* to the table of the proxied class before _can_assign_attr is asked.  For
\* every other value the test goes on to `object.ExceptionInstance`, which
\* the builtin `object` does not have: the AttributeError is caught on line
\* 207 and the loop continues.
assattr_target(inferred, iat) ==
    IF inferred.kind = "Instance"
    THEN [iat |-> inferred.of,
          next |-> IF CanAssignAttr(inferred.of) THEN "record" ELSE "continue"]
    ELSE [iat |-> iat, next |-> "continue"]

\* Lines 210-221: the list `values` of the table with the node put in.
assattr_insert(values, node) ==
    IF /\ node.frame = "__init__"
       /\ values # <<>>
       /\ values[1].frame # "__init__"
    THEN <<node>> \o values
    ELSE Append(values, node)

\* Builder.delayed_assattr(node), from the i-th inferred value on: T are the
\* tables, `ends` how node.expr.infer() ends after its values (a ValueError
\* is passed over on line 222), `events` what was put where so far: for
\* which inferred value, into which table, what the table held before, and
\* the entities the values iterated before denote.
RECURSIVE assattr_loop(_, _, _, _, _, _, _)
assattr_loop(T, node, values, ends, i, iat, events) ==
    IF i > Len(values)
    THEN [iattrs |-> T, events |-> events, raised |-> None]
    ELSE IF values[i].kind = "Uninferable"
    THEN assattr_loop(T, node, values, ends, i + 1, iat, events)
    ELSE LET t == assattr_target(values[i], iat)
         IN  IF t.next = "continue"
             THEN assattr_loop(T, node, values, ends, i + 1, t.iat, events)
             ELSE IF t.next # "record"
             THEN [iattrs |-> T, events |-> events, raised |-> t.next]
             ELSE IF \E j \in 1..Len(T[t.iat]) : T[t.iat][j] = node
             THEN assattr_loop(T, node, values, ends, i + 1, t.iat, events)
             ELSE assattr_loop(
                      [T EXCEPT ![t.iat] = assattr_insert(@, node)],
                      node, values, ends, i + 1, t.iat,
                      Append(events,
                             [at |-> i, inferred |-> values[i],
                              table |-> t.iat, before |-> T[t.iat],
                              passed |-> {values[j].of : j \in 1..(i - 1)}]))

\* Builder().delayed_assattr(node) for a new node standing in `frame`, whose
\* target infers to `values`.
DelayedAssattr(frame, values, ends) ==
    LET node == [id |-> alog.n + 1, frame |-> frame]
        r == assattr_loop(iattrs, node, values, ends, 1, None, <<>>)
    IN  /\ alog.n < MaxAssattr
        /\ iattrs' = r.iattrs
        /\ alog' = [n |-> alog.n + 1, frame |-> frame, events |-> r.events,
                    raised |-> r.raised]
        /\ UNCHANGED <<parse_log, hret, classes, tret, nothelp>>

\* --------------------------------------------------- the length of a node
\* The message of the InferenceError raised for a __len__ that asks for its
\* own length.
SelfReferentialLen == "InferenceError: Self referential __len__ function"

\* object_len(node): `in_len` is whether node.frame() is a FunctionDef named
\* __len__, `owned` whether the class of the inferred instance is the parent
\* of that function.  Line 264 compares the frame node itself, not its name,
\* with "__len__", which is never equal, so the test of lines 262-267 fails
\* for every node.  A value that is no string constant then reaches line
\* 282, where the tuple of classes is built with `node.Set`, an attribute of
\* the node that was passed in: an AttributeError.
object_len(stream, in_len, owned) ==
    LET inferred_node == safe_infer(stream).value
        frame_is_len == FALSE
    IN  IF /\ in_len
           /\ frame_is_len
           /\ inferred_node = "Instance"
           /\ owned
        THEN Out("raise", SelfReferentialLen)
        ELSE IF inferred_node = None \/ inferred_node = "Uninferable"
        THEN Out("raise", "InferenceError")
        ELSE IF inferred_node = "Const"
        THEN Out("return", "len(value)")
        ELSE Out("raise", "AttributeError")

ObjectLen(stream, in_len, owned) ==
    LET r == object_len(stream, in_len, owned)
    IN  /\ hret.op = None
        /\ hret' = [op |-> "object_len", stream |-> stream, out |-> r.out,
                    value |-> r.value, in_len |-> in_len, owned |-> owned]
        /\ UNCHANGED <<parse_log, classes, tret, iattrs, alog, nothelp>>

\* No helper was called yet.
InitHelp ==
    /\ alog = [n |-> 0, frame |-> None, events |-> <<>>, raised |-> None]
    /\ iattrs = [e \in Entities |-> <<>>]
    /\ tret = [op |-> None, args |-> <<>>, out |-> None, value |-> None,
               infers |-> 0]
    /\ classes = ClassDefs
    /\ hret = [op |-> None, stream |-> [values |-> <<>>, ends |-> "stop"],
               out |-> None, value |-> None]
    /\ parse_log = <<>>

InitRest == InitRes /\ InitInst /\ InitLoc /\ InitBld /\ InitHelp

\* Manager().file_from_module_name(modname, contextfile)
FileFromModuleName(modname, contextfile) ==
    LET key == <<modname, contextfile>>
        r == file_from_module_name(mod_file_cache, modname, contextfile)
    IN  /\ mod_file_cache' = r.cache
        /\ hook_calls' = [hook_calls EXCEPT ![key] = IF r.hook THEN @ + 1 ELSE @]
        /\ lookups' = [lookups EXCEPT ![key] = @ + 1]
        /\ fret' = [out |-> r.out, value |-> r.value, via |-> r.via, call |-> key]
        /\ UNCHANGED <<ctxvars, walkvars, helpvars,
                       mgrvars, instvars, locvars, bldvars>>

\* ------------------------------------------------------------------ actions

SetHeap(h) ==
    /\ ctxs' = h.ctxs
    /\ paths' = h.paths
    /\ cells' = h.cells
    /\ extras' = h.extras

\* The heap of an initial state.
SetHeapInit(h) ==
    /\ ctxs = h.ctxs
    /\ paths = h.paths
    /\ cells = h.cells
    /\ extras = h.extras

\* InferenceContext()
NewContext ==
    /\ SetHeap(InferenceContext(Heap, <<>>, 0).heap)
    /\ parent' = Append(parent, 0)
    /\ yielded' = Append(yielded, 0)
    /\ ret' = None
    /\ UNCHANGED notctx

\* c.clone()
Clone(c) ==
    /\ SetHeap(clone(Heap, c).heap)
    /\ parent' = Append(parent, c)
    /\ yielded' = Append(yielded, 0)
    /\ ret' = None
    /\ UNCHANGED notctx

\* copy_context(c), c = 0 standing for None
CopyContext(c) ==
    /\ SetHeap(copy_context(Heap, c).heap)
    /\ parent' = Append(parent, c)
    /\ yielded' = Append(yielded, 0)
    /\ ret' = None
    /\ UNCHANGED notctx

\* bind_context_to_node(c, node), c = 0 standing for None
BindContextToNode(c, node) ==
    /\ SetHeap(bind_context_to_node(Heap, c, node).heap)
    /\ parent' = Append(parent, c)
    /\ yielded' = Append(yielded, 0)
    /\ ret' = None
    /\ UNCHANGED notctx

\* c.push(node)
Push(c, node) ==
    /\ SetHeap(push(Heap, c, node).heap)
    /\ ret' = push(Heap, c, node).ret
    /\ UNCHANGED <<parent, yielded, notctx>>

\* c.lookupname = name
SetLookupname(c, name) ==
    /\ ctxs' = [ctxs EXCEPT ![c].lookupname = name]
    /\ ret' = None
    /\ UNCHANGED <<paths, cells, extras, parent, yielded, notctx>>

\* c.callcontext = cc
SetCallcontext(c, cc) ==
    /\ ctxs' = [ctxs EXCEPT ![c].callcontext = cc]
    /\ ret' = None
    /\ UNCHANGED <<paths, cells, extras, parent, yielded, notctx>>

\* c.boundnode = node
SetBoundnode(c, node) ==
    /\ ctxs' = [ctxs EXCEPT ![c].boundnode = node]
    /\ ret' = None
    /\ UNCHANGED <<paths, cells, extras, parent, yielded, notctx>>

\* c.extra_context[key] = ...
SetExtra(c, key) ==
    /\ extras' = [extras EXCEPT ![ctxs[c].extra] = @ \cup {key}]
    /\ ret' = None
    /\ UNCHANGED <<ctxs, paths, cells, parent, yielded, notctx>>

\* c.nodes_inferred = value
SetNodesInferred(c, value) ==
    /\ SetHeap(set_nodes_inferred(Heap, c, value))
    /\ ret' = None
    /\ UNCHANGED <<parent, yielded, notctx>>

\* The fresh context c descends from.
RECURSIVE Root(_)
Root(c) == IF parent[c] = 0 THEN c ELSE Root(parent[c])

\* The visited set read through context c.
VisitedOf(c) == paths[ctxs[c].path]

\* The context the last creating call returned.
Newest == Len(ctxs)

\* The extension map read through context c.
ExtraOf(c) == extras[ctxs[c].extra]

\* The counter read through context c.
Counter(c) == cells[ctxs[c].cell]

\* The creating call of this step returned a context made from c (0: from None).
Created(c) == Len(ctxs') = Len(ctxs) + 1 /\ parent'[Len(ctxs')] = c

\* The counter read through the context this step created.
CreatedCounter == cells'[ctxs'[Len(ctxs')].cell]

\* One value asked of an inference run under context c.
InferStep(c) ==
    /\ SetHeap(infer_step(Heap, c).heap)
    /\ ret' = infer_step(Heap, c).ret
    /\ yielded' = IF infer_step(Heap, c).ret = "Yield"
                  THEN [yielded EXCEPT ![Root(c)] = @ + 1]
                  ELSE yielded
    /\ UNCHANGED <<parent, notctx>>

\* No context exists yet.
Init ==
    /\ ctxs = <<>>
    /\ paths = <<>>
    /\ cells = <<>>
    /\ extras = <<>>
    /\ parent = <<>>
    /\ yielded = <<>>
    /\ ret = None
    /\ graph = [n \in WalkNodes |-> <<>>]
    /\ stack = <<>>
    /\ trail = <<>>
    /\ steps = 0
    /\ InitMgr
    /\ InitRest

\* ----------------------------------------------- visited sets: clone and push
Next ==
    \/ Len(ctxs) < MaxCtx /\ NewContext
    \/ Len(ctxs) < MaxCtx /\ \E c \in Ctx : Clone(c)
    \/ Len(ctxs) < MaxCtx /\ \E c \in Ctx \cup {0} : CopyContext(c)
    \/ \E c \in Ctx, n \in PushNodes : Push(c, n)
    \/ \E c \in Ctx, name \in Names : SetLookupname(c, name)

Spec == Init /\ [][Next]_vars

\* C1: a clone starts with exactly the (node, lookupname) pairs of the original,
\* and a push on any context leaves the visited set of every other context
\* unchanged, so the visited sets of a context and of its clones, at any depth
\* of cloning, are independent.
C1_CloneCopiesPathByValue ==
    [][ /\ \A c \in Ctx : Clone(c) => VisitedOf(Newest)' = VisitedOf(c)
        /\ \A c \in Ctx, n \in PushNodes :
              Push(c, n) => \A d \in Ctx \ {c} : VisitedOf(d)' = VisitedOf(d)
      ]_vars

\* A chain original -> clone -> clone of the clone whose three visited sets have
\* diverged by pushes, the first clone having been taken of an empty set.
C1_Witness ==
    \E c1, c2, c3 \in Ctx :
        /\ parent[c2] = c1 /\ parent[c3] = c2
        /\ VisitedOf(c2) # {}
        /\ VisitedOf(c1) \cap VisitedOf(c2) = {}
        /\ VisitedOf(c1) # {}
        /\ VisitedOf(c3) # VisitedOf(c2)
        /\ ret = "False"

\* C4: push returns True and changes nothing when (node, lookupname) is already
\* visited, and otherwise adds exactly that pair and returns False; no operation
\* ever removes a pair from a visited set (so a repeated push under the same
\* name returns True, and one under a name not yet used returns False).
C4_PushContract ==
    [][ /\ \A c \in Ctx, n \in PushNodes :
              Push(c, n) =>
                  LET pair == <<n, ctxs[c].lookupname>>
                  IN  IF pair \in VisitedOf(c)
                      THEN ret' = "True" /\ VisitedOf(c)' = VisitedOf(c)
                      ELSE ret' = "False" /\ VisitedOf(c)' = VisitedOf(c) \cup {pair}
        /\ \A c \in Ctx : VisitedOf(c) \subseteq VisitedOf(c)'
      ]_vars

\* The same node is visited under both lookup names in one context and the last
\* push, a repeated one, returned True.
C4_Witness ==
    \E c \in Ctx, n \in PushNodes :
        /\ {<<n, None>>, <<n, "a">>} \subseteq VisitedOf(c)
        /\ ret = "True"

\* ------------------------------------------------- the slots of a context
NextFields ==
    \/ Len(ctxs) < MaxFieldCtx /\ NewContext
    \/ Len(ctxs) < MaxFieldCtx /\ \E c \in Ctx : Clone(c)
    \/ \E c \in Ctx, name \in Names : SetLookupname(c, name)
    \/ \E c \in Ctx, cc \in CallContexts : SetCallcontext(c, cc)
    \/ \E c \in Ctx, n \in PushNodes \cup {None} : SetBoundnode(c, n)
    \/ \E c \in Ctx, k \in ExtKeys : SetExtra(c, k)

SpecFields == Init /\ [][NextFields]_vars

\* The original reading of C7: right after clone() the lookup name, the call
\* context, the bound node and the extension map of the clone all equal those
\* of the original.
C7_CloneCopiesFourSlots ==
    [][ \A c \in Ctx :
          Clone(c) =>
              LET k == Len(ctxs')
              IN  /\ ctxs'[k].lookupname = ctxs[c].lookupname
                  /\ ctxs'[k].callcontext = ctxs[c].callcontext
                  /\ ctxs'[k].boundnode = ctxs[c].boundnode
                  /\ extras'[ctxs'[k].extra] = ExtraOf(c)
      ]_vars

\* C7, amended: right after clone() the call context, the bound node and the
\* extension map of the clone equal those of the original (the extension map
\* being the very dict of the original), and the lookup name of the clone is
\* None whatever the original's is.
C7_CloneCopiesThreeSlots ==
    [][ \A c \in Ctx :
          Clone(c) =>
              LET k == Len(ctxs')
              IN  /\ k = Len(ctxs) + 1
                  /\ ctxs'[k].lookupname = None
                  /\ ctxs'[k].callcontext = ctxs[c].callcontext
                  /\ ctxs'[k].boundnode = ctxs[c].boundnode
                  /\ ctxs'[k].extra = ctxs[c].extra
                  /\ extras'[ctxs'[k].extra] = ExtraOf(c)
      ]_vars

\* A clone of a context with every slot set: the clone has the call context, the
\* bound node and the extension map of the original and no lookup name.
C7_Witness ==
    \E c1, c2 \in Ctx :
        /\ parent[c2] = c1
        /\ ctxs[c1].lookupname = "a" /\ ctxs[c2].lookupname = None
        /\ ctxs[c1].callcontext = "call" /\ ctxs[c2].callcontext = "call"
        /\ ctxs[c1].boundnode = "n1" /\ ctxs[c2].boundnode = "n1"
        /\ ExtraOf(c1) = {"k"} /\ ExtraOf(c2) = {"k"}

\* ------------------------------------------------------- binding to a node
NextBind ==
    \/ Len(ctxs) < MaxFieldCtx /\ NewContext
    \/ Len(ctxs) < MaxFieldCtx /\ \E c \in Ctx \cup {0}, n \in Nodes : BindContextToNode(c, n)
    \/ \E c \in Ctx, n \in PushNodes : Push(c, n)
    \/ \E c \in Ctx, name \in Names : SetLookupname(c, name)
    \/ \E c \in Ctx, cc \in CallContexts : SetCallcontext(c, cc)
    \/ \E c \in Ctx, v \in BoundValues : SetNodesInferred(c, v)

SpecBind == Init /\ [][NextBind]_vars

\* C6: bind_context_to_node(context, node) returns a new context bound to node
\* and leaves every existing context as it was (its slots, its visited set, its
\* counter); the new context shares the counter of the context it was made from,
\* or has a counter of its own at 0 when made from None; and a later push on a
\* context leaves the visited set of the context it was made from unchanged.
C6_BindLeavesCallerUnchanged ==
    [][ /\ \A c \in Ctx \cup {0}, n \in Nodes :
              BindContextToNode(c, n) =>
                  LET k == Len(ctxs')
                  IN  /\ k = Len(ctxs) + 1
                      /\ ctxs'[k].boundnode = n
                      /\ \A d \in Ctx : /\ ctxs'[d] = ctxs[d]
                                        /\ VisitedOf(d)' = VisitedOf(d)
                                        /\ Counter(d)' = Counter(d)
                      /\ c # 0 => ctxs'[k].cell = ctxs[c].cell
                      /\ c = 0 => /\ CreatedCounter = 0
                                  /\ \A d \in Ctx : ctxs'[k].cell # ctxs[d].cell
        /\ \A c \in Ctx, n \in PushNodes :
              (Push(c, n) /\ parent[c] # 0) =>
                  VisitedOf(parent[c])' = VisitedOf(parent[c])
        /\ \A c \in Ctx, v \in BoundValues :
              (SetNodesInferred(c, v) /\ parent[c] # 0) => Counter(parent[c])' = v
      ]_vars

\* A caller with a lookup name and a call context and bound to n1, and a
\* context bound from it to n2: the caller's slots stand, a push on the new
\* context has not reached the caller's visited set, and both read the counter
\* value written last.
C6_Witness ==
    \E c1, c2 \in Ctx :
        /\ parent[c2] = c1
        /\ ctxs[c1].boundnode = "n1" /\ ctxs[c2].boundnode = "n2"
        /\ ctxs[c1].lookupname = "a" /\ ctxs[c1].callcontext = "call"
        /\ VisitedOf(c1) = {} /\ VisitedOf(c2) # {}
        /\ Counter(c1) = 2 /\ Counter(c2) = 2

\* ------------------------------------------------------ the shared counter
NextCounter ==
    \/ Len(ctxs) < MaxCtx /\ NewContext
    \/ Len(ctxs) < MaxCtx /\ \E c \in Ctx : Clone(c)
    \/ Len(ctxs) < MaxCtx /\ \E c \in Ctx \cup {0} : CopyContext(c)
    \/ Len(ctxs) < MaxCtx /\ \E c \in Ctx \cup {0}, n \in PushNodes : BindContextToNode(c, n)
    \/ \E c \in Ctx, v \in WrittenValues : SetNodesInferred(c, v)

SpecCounter == Init /\ [][NextCounter]_vars

\* C2: contexts with a common ancestor read one and the same nodes_inferred: a
\* context made from another by clone, copy_context or bind_context_to_node starts
\* with its maker's value, and a write through one context is read through every
\* context of its session and through no context of another session; a context
\* made from nothing starts at 0.
C2_CounterSharedInSession ==
    /\ [](\A c, d \in Ctx : Root(c) = Root(d) => Counter(c) = Counter(d))
    /\ [][ /\ \A c \in Ctx, v \in WrittenValues :
                 SetNodesInferred(c, v) =>
                     \A d \in Ctx : Counter(d)' =
                         IF Root(d) = Root(c) THEN v ELSE Counter(d)
           /\ Created(0) => CreatedCounter = 0
           /\ \A c \in Ctx : Created(c) => CreatedCounter = Counter(c)
           /\ \A c \in Ctx \cup {0} : Created(c) => \A d \in Ctx : Counter(d)' = Counter(d)
         ]_vars

\* A context, a context bound from it and an independent one: the first two read
\* the value last written, the third its own.
C2_Witness ==
    \E c1, c2, c3 \in Ctx :
        /\ parent[c1] = 0 /\ parent[c2] = c1 /\ parent[c3] = 0 /\ c1 # c3
        /\ ctxs[c2].boundnode # None
        /\ Counter(c1) = 2 /\ Counter(c2) = 2 /\ Counter(c3) = 1

\* --------------------------------------------------------- the work budget
\* One session: a fresh context, its clones, and inference runs under them.
NextBudget ==
    \/ Len(ctxs) = 0 /\ NewContext
    \/ Len(ctxs) < MaxCtx /\ \E c \in Ctx : Clone(c)
    \/ Len(ctxs) < MaxCtx /\ \E c \in Ctx : CopyContext(c)
    \/ \E c \in Ctx : InferStep(c)

SpecBudget == Init /\ [][NextBudget]_vars

\* C3: in a session the shared counter never exceeds max_inferred and no more
\* than max_inferred values are yielded over all its branches together (every
\* context of the session reads the number of values the session has yielded);
\* with the counter at the cap a run under any context of the session yields
\* nothing and counts nothing.
C3_BudgetNeverExceeded ==
    /\ [](\A c \in Ctx : /\ Counter(c) <= max_inferred
                         /\ yielded[Root(c)] <= max_inferred
                         /\ Counter(c) = yielded[Root(c)])
    /\ [][ \A c \in Ctx :
             (InferStep(c) /\ Counter(c) = max_inferred) =>
                 /\ ret' = "Stop"
                 /\ cells' = cells
                 /\ yielded' = yielded
         ]_vars

\* Three contexts of one session, the cap reached and a run just refused.
C3_Witness ==
    /\ Len(ctxs) = MaxCtx
    /\ \A c \in Ctx : Counter(c) = max_inferred /\ yielded[Root(c)] = max_inferred
    /\ ret = "Stop"

\* ------------------------------------------------------ the inference walk
\* The graphs walked: every definition refers to at most MaxFork names, which
\* covers a = a, a = b; b = a and a = a + b.
Graphs == [WalkNodes -> SeqsUpTo(WalkNodes, MaxFork)]

\* A path of a walk expands (start, None) and then each (definition, its name)
\* at most once, and every expansion makes at most MaxFork clones.
RECURSIVE Power(_, _)
Power(b, e) == IF e = 0 THEN 1 ELSE b * Power(b, e - 1)
RECURSIVE TreeSize(_)
TreeSize(d) == IF d = 0 THEN 1 ELSE Power(MaxFork, d) + TreeSize(d - 1)
MaxWalkCtx == TreeSize(Cardinality(WalkNodes) + 1)

\* A walk is about to enter definition `start` with a fresh context.
InitWalk ==
    /\ SetHeapInit(InferenceContext([ctxs |-> <<>>, paths |-> <<>>, cells |-> <<>>,
                                    extras |-> <<>>], <<>>, 0).heap)
    /\ parent = <<0>>
    /\ yielded = <<0>>
    /\ ret = None
    /\ graph \in Graphs
    /\ \E start \in WalkNodes : stack = <<(<<1, start>>)>>
    /\ trail = <<(<<>>)>>
    /\ steps = 0
    /\ InitMgr
    /\ InitRest

\* One step of the walk: enter the definition on top of the stack with its
\* context; push says whether it was entered before on this path; if not, the
\* definition is expanded and the walk forks into the names it refers to.
WalkStep ==
    /\ stack # <<>>
    /\ LET c == stack[1][1]
           n == stack[1][2]
           r == push(Heap, c, n)
           f == fork(r.heap, c, graph[n])
           made == Len(f.frames)
       IN  /\ r.ret = "True" \/ Len(ctxs) + Len(graph[n]) <= MaxWalkCtx
           /\ ret' = r.ret
           /\ IF r.ret = "True"
              THEN /\ SetHeap(r.heap)
                   /\ stack' = Tail(stack)
                   /\ UNCHANGED <<trail, parent, yielded>>
              ELSE /\ SetHeap(f.heap)
                   /\ stack' = f.frames \o Tail(stack)
                   /\ trail' = [trail EXCEPT ![c] = Append(@, <<n, ctxs[c].lookupname>>)]
                                   \o [i \in 1..made |-> Append(trail[c], <<n, ctxs[c].lookupname>>)]
                   /\ parent' = parent \o [i \in 1..made |-> c]
                   /\ yielded' = yielded \o [i \in 1..made |-> 0]
    /\ steps' = steps + 1
    /\ UNCHANGED <<graph, mgrvars, restvars>>

NextWalk == WalkStep

SpecWalk == InitWalk /\ [][NextWalk]_vars

NoDuplicates(q) == \A i, j \in 1..Len(q) : q[i] = q[j] => i = j

\* C5: a walk that expands a definition only when push returns False, and forks
\* with clones, terminates on every graph, self-referential and mutually
\* recursive ones included: it takes no more steps than it has made contexts,
\* of which there are no more than a tree of the walk's depth has (so every run
\* is finite), it is never held up before its stack is empty, and no path
\* expands a (node, lookupname) pair twice.
C5_WalkTerminates ==
    /\ steps <= Len(ctxs)
    /\ Len(ctxs) <= MaxWalkCtx
    /\ stack # <<>> =>
          \/ push(Heap, stack[1][1], stack[1][2]).ret = "True"
          \/ Len(ctxs) + Len(graph[stack[1][2]]) <= MaxWalkCtx
    /\ \A c \in 1..Len(trail) : NoDuplicates(trail[c])

\* The walk of a = a + b; b = a has ended, having cut a cycle last.
C5_Witness ==
    /\ graph["n1"] = <<"n1", "n2">>
    /\ graph["n2"] = <<"n1">>
    /\ stack = <<>>
    /\ ret = "True"
    /\ \E c \in Ctx : Len(trail[c]) = 3

\* ------------------------------------------------------ the module cache
NextMgr ==
    \/ /\ Len(modules) < MaxModules
       /\ \E parses \in BOOLEAN, modname \in ModNames \ {None}, path \in StringPaths :
             StringBuild(parses, modname, path)
    \/ \E filepath \in FilePaths, modname \in ModNames,
          fallback \in BOOLEAN, source \in BOOLEAN, readable \in BOOLEAN :
             AstFromFile(filepath, modname, fallback, source, readable)
    \/ /\ Len(modules) < MaxModules
       /\ \E module \in LiveModules, modname \in ModNames, python_build \in BOOLEAN,
             readable \in BOOLEAN, parses \in BOOLEAN, asserts \in BOOLEAN :
             AstFromModule(module, modname, python_build, readable, parses, asserts)

SpecMgr == Init /\ [][NextMgr]_vars

\* The step is a call of the operation on these arguments.
Calls(op, arg, modname) ==
    /\ mret'.call[1] = op
    /\ mret'.call[2] = arg
    /\ mret'.call[3] = modname
\* The last call was this call of ast_from_file.
LastFileCall(filepath, modname) ==
    /\ Len(mret.call) = 3
    /\ mret.call[1] = "ast_from_file"
    /\ mret.call[2] = filepath
    /\ mret.call[3] = modname

\* The module the cache holds under a name, 0 when it holds none.
Cached(name) == IF name \in DOMAIN ast_cache THEN ast_cache[name] ELSE 0
\* The cache holds under the name a module recorded with another file.
CachedFromOther(name, path) ==
    Cached(name) # 0 /\ modules[Cached(name)].file # path

C9_ModuleOfOtherPathIsMiss ==
    [][\A module \in LiveModules, modname \in ModNames, python_build \in BOOLEAN,
          readable \in BOOLEAN, parses \in BOOLEAN, asserts \in BOOLEAN :
          Calls("ast_from_module", module, modname)
          /\ AstFromModule(module, modname, python_build, readable, parses, asserts) =>
             LET name == IF modname # None THEN modname ELSE module.name
             IN  module.file # None /\ CachedFromOther(name, module.file) =>
                    /\ mret'.via # "cache"
                    /\ mret'.mod # Cached(name)]_vars

\* C10: when ast_from_file(path, name) hands a readable source file to the
\* builder, the call returns a module and the cache then holds that module
\* under name with that path (so that a second request is served from the
\* cache and the builder runs once per (name, path)).
C10_BuiltModuleIsCached ==
    [][\A filepath \in FilePaths, modname \in ModNames,
          fallback \in BOOLEAN, source \in BOOLEAN :
          Calls("ast_from_file", filepath, modname)
          /\ AstFromFile(filepath, modname, fallback, source, TRUE) =>
             LET fp == ResolvedPath(filepath)
                 name == FileModname(fp, modname)
             IN  mret'.via = "file_build" =>
                    /\ mret'.out = "module"
                    /\ name \in DOMAIN ast_cache'
                    /\ ast_cache'[name] = mret'.mod
                    /\ modules'[ast_cache'[name]].file = fp]_vars

\* -------------------------------------------------- the resolution cache
NextRes ==
    \E modname \in ResModNames, contextfile \in ContextFiles :
        /\ lookups[<<modname, contextfile>>] < MaxLookups
        /\ FileFromModuleName(modname, contextfile)

SpecRes == Init /\ [][NextRes]_vars

\* C11: over any sequence of file_from_module_name calls, file_info_from_modpath
\* runs at most once per key (modname, contextfile), and every lookup of a key
\* that was looked up before is answered from the resolution cache.
C11_ResolvedOncePerKey ==
    [][\A k \in ResKeys :
          FileFromModuleName(k[1], k[2]) =>
              /\ hook_calls'[k] <= 1
              /\ lookups[k] >= 1 =>
                     /\ k \in DOMAIN mod_file_cache
                     /\ fret'.via = "cache"
                     /\ hook_calls'[k] = hook_calls[k]]_vars

\* C12: when the resolution of a key fails, file_from_module_name raises, and
\* what it raises is the failure recorded under the key in the resolution cache,
\* on the first lookup and on every later one.
C12_FailureRecordedAndReplayed ==
    [][\A k \in ResKeys :
          k[1] \in MissingModNames /\ FileFromModuleName(k[1], k[2]) =>
              /\ fret'.out = "raise"
              /\ k \in DOMAIN mod_file_cache'
              /\ mod_file_cache'[k] = fret'.value]_vars

\* ---------------------------------------------- caches shared by instances
NextShare ==
    \/ Len(managers) < MaxManagers /\ NewManager
    \/ /\ Len(modules) < MaxModules
       /\ \E i \in 1..Len(managers), modname \in ModNames \ {None},
             path \in StringPaths : StringBuildVia(i, modname, path)
    \/ \E i \in 1..Len(managers), key \in InsertedKeys, value \in InsertedValues :
          InsertModFile(i, key, value)

SpecShare == Init /\ [][NextShare]_vars

NextLocals ==
    \/ /\ Len(modules) = 0
       /\ BuildStart(1, "m", None, Idle.src, FALSE)
    \/ \E name \in LocalNames, lineno \in Linenos :
          Len(modules) = 1 /\ added < MaxLocals /\ AddFromNames(1, name, lineno)

SpecLocals == Init /\ [][NextLocals]_vars

\* C17: after add_from_names_to_locals inserts a node under a name, the list of
\* the nodes defining that name is in non-decreasing order of effective line
\* (fromlineno, a missing line counting as 0), and nodes of the same effective
\* line are in the order they were inserted in.
C17_LocalsSortedStable ==
    \A k \in 1..Len(locals) : \A name \in DOMAIN locals[k] :
        \A i, j \in 1..Len(locals[k][name]) :
            i < j =>
                /\ key_func(locals[k][name][i]) <= key_func(locals[k][name][j])
                /\ key_func(locals[k][name][i]) = key_func(locals[k][name][j]) =>
                      locals[k][name][i].id < locals[k][name][j].id

\* Nodes were inserted at lines 5, 2, None and 0: the list has them at lines
\* 0 (the third, without a line), 0 (the fourth), 2, 5.
C17_Witness ==
    /\ Len(locals) = 1
    /\ "a" \in DOMAIN locals[1]
    /\ Len(locals[1]["a"]) = 4
    /\ [i \in 1..4 |-> locals[1]["a"][i].id] = <<3, 4, 2, 1>>
    /\ [i \in 1..4 |-> locals[1]["a"][i].fromlineno] = <<NoLine, 0, 2, 5>>

\* The nodes of a list in the order they were inserted in: by their ids,
\* which AddFromNames gives out in increasing order.
RECURSIVE ByInsertion(_)
ByInsertion(list) ==
    IF list = <<>> THEN <<>>
    ELSE LET first == CHOOSE i \in 1..Len(list) :
                          \A j \in 1..Len(list) : list[i].id <= list[j].id
         IN  <<list[first]>> \o
             ByInsertion([j \in 1..(Len(list) - 1) |->
                             IF j < first THEN list[j] ELSE list[j + 1]])

\* C29: sorting the list of a name after every single insertion gives, for
\* every sequence of insertions, the list that inserting everything and
\* sorting once at the end gives; sorting a sorted list leaves it unchanged.
C29_ResortingEqualsSortingOnce ==
    \A k \in 1..Len(locals) : \A name \in DOMAIN locals[k] :
        /\ locals[k][name] = sort_locals(ByInsertion(locals[k][name]))
        /\ sort_locals(locals[k][name]) = locals[k][name]

\* Three nodes of one line inserted after a node of a later line: the order
\* of insertion is not the sorted order, and the sort meets nodes it has to
\* keep in place.
C29_Witness ==
    /\ Len(locals) = 1
    /\ "a" \in DOMAIN locals[1]
    /\ [i \in 1..Len(locals[1]["a"]) |-> locals[1]["a"][i].id] = <<2, 3, 4, 1>>
    /\ [i \in 1..Len(locals[1]["a"]) |-> locals[1]["a"][i].fromlineno]
          = <<2, 2, 2, 5>>

\* ------------------------------------------------------ one build, by steps
NextBuild ==
    \/ \E src \in Sources, apply \in BOOLEAN :
          BuildStart(1, "m", "/A.py", src, apply)
    \/ \E module \in LiveModules, apply \in BOOLEAN, asserts \in BOOLEAN :
          \E src \in LoaderSources(module) :
              ModuleBuildStart(1, module, src, apply, asserts)
    \/ BuildStep(1)

SpecBuild == Init /\ [][NextBuild]_vars

\* The steps of the kind run so far on module k.
Ran(k, op) == SelectSeq(work[k].events, LAMBDA e : e.op = op)
\* Module k is in the module cache.
InCache(k) == \E name \in DOMAIN ast_cache : ast_cache[name] = k
\* The node is among the nodes of the list.
Holds(list, node) == \E i \in 1..Len(list) : list[i] = node

\* C14: if a build through string_build fails at any step, the module is not in
\* the module cache afterwards: the cache is as it was when the build started.
C14_FailedBuildNotCached ==
    \A s \in Sessions :
        sess[s].pc = "raised" /\ sess[s].entry = "string_build" =>
            /\ ast_cache = sess[s].before
            /\ sess[s].mod # 0 => ~InCache(sess[s].mod)

\* Where a step stands in the order C15 gives.
Rank(op) ==
    CASE op = "cache_module" -> 1
      [] op = "add_from_names_to_locals" -> 2
      [] op = "delayed_assattr" -> 3
      [] op = "visit_transforms" -> 4
      [] OTHER -> 5

\* C15: in every run of string_build the module is registered in the module
\* cache first, then every deferred import node is resolved into locals, then
\* every delayed attribute assignment is resolved, then (if enabled) the
\* transforms are visited; the module is in the cache when the first deferred
\* step runs.
C15_PostBuildOrder ==
    \A s \in Sessions :
        LET b == sess[s]
            e == work[b.mod].events
        IN  b.entry = "string_build" /\ b.mod # 0 =>
              /\ \A i, j \in 1..Len(e) : i < j =>
                    /\ Rank(e[i].op) <= Rank(e[j].op)
                    /\ e[i].op = e[j].op => e[i].arg < e[j].arg
              /\ Len(e) >= 1 => e[1].op = "cache_module" /\ InCache(b.mod)
              /\ Ran(b.mod, "delayed_assattr") # <<>> =>
                    Len(Ran(b.mod, "add_from_names_to_locals")) = Len(b.src.imports)
              /\ Ran(b.mod, "visit_transforms") # <<>> =>
                    /\ b.apply
                    /\ Len(Ran(b.mod, "add_from_names_to_locals")) = Len(b.src.imports)
                    /\ Len(Ran(b.mod, "delayed_assattr")) = Len(b.src.delayed)
              /\ b.pc = "returned" =>
                    Len(e) = 1 + Len(b.src.imports) + Len(b.src.delayed)
                             + (IF b.apply THEN 1 ELSE 0)

\* A string_build with two import nodes, two delayed assignments and the
\* transforms has returned.
C15_Witness ==
    /\ sess[1].pc = "returned"
    /\ sess[1].entry = "string_build"
    /\ Len(sess[1].src.imports) = 2
    /\ Len(sess[1].src.delayed) = 2
    /\ Len(work[sess[1].mod].events) = 6

\* The names a node binds apart from its star imports.
OwnNames(node) ==
    { IF node.names[i][2] # None THEN node.names[i][2] ELSE node.names[i][1] :
        i \in { n \in 1..Len(node.names) : node.names[n][1] # "*" } }

RaceSources ==
    { src \in Sources :
        /\ src.parses /\ src.transform = "ok"
        /\ \A i \in 1..Len(src.imports) : src.imports[i].id = 2
        /\ \A i \in 1..Len(src.delayed) : src.delayed[i].id = 3 }

\* Each session builds "m" from /A.py once, step by step, and any session may
\* ask the manager for "m" of /A.py at any time; nothing orders the steps of
\* one session against those of the other.
NextRace ==
    \/ \E s \in Sessions, src \in RaceSources : BuildStart(s, "m", "/A.py", src, TRUE)
    \/ \E s \in Sessions : BuildStep(s)
    \/ \E readable \in BOOLEAN : AstFromFile("/A.py", "m", FALSE, FALSE, readable)

SpecRace == Init /\ [][NextRace]_vars

\* The build of module k has returned.
Complete(k) == \E s \in Sessions : sess[s].mod = k /\ sess[s].pc = "returned"

\* C16: when two sessions concurrently request the same module name and path,
\* the module is built and inserted into the module cache at most once, and no
\* session obtains from the cache a module whose deferred import / attribute
\* resolution has not completed.
C16_BuiltOnceNeverHalfBuilt ==
    /\ Cardinality({ k \in 1..Len(work) : Ran(k, "cache_module") # <<>> }) <= 1
    /\ mret.via = "cache" => Complete(mret.mod)

\* ------------------------------------------------------------------------
\* Specification: calls of _parse_string.
NextParse ==
    \E type_comments \in BOOLEAN, first \in ParseOutcomes, second \in ParseOutcomes :
        ParseString(type_comments, first, second)

SpecParse == Init /\ [][NextParse]_vars

\* C21: _parse_string calls the syntax adapter at most twice; the second
\* call, made without the support of annotation comments, happens exactly
\* when the first call was made with the support and failed with the
\* misplaced-annotation error; every other error of the first call, and
\* every error of the second call, reaches the caller with no further call.
C21_RetriesOnceOnMisplacedAnnotation ==
    \A i \in 1..Len(parse_log) :
        LET p == parse_log[i]
            one == p.calls[1]
            last == p.calls[Len(p.calls)]
        IN  /\ Len(p.calls) \in {1, 2}
            /\ Len(p.calls) = 2 <=>
                  /\ one.type_comments
                  /\ one.outcome = MISPLACED_TYPE_ANNOTATION_ERROR
            /\ Len(p.calls) = 2 => ~p.calls[2].type_comments
            /\ IF last.outcome = "ok"
               THEN p.out = "return"
               ELSE p.out = "raise" /\ p.exc = last.outcome

\* A call that tried again and whose second call failed as well, next to a
\* call that failed with another syntax error and was not tried again.
C21_Witness ==
    /\ \E i \in 1..Len(parse_log) :
          /\ Len(parse_log[i].calls) = 2
          /\ parse_log[i].calls[2].outcome = MISPLACED_TYPE_ANNOTATION_ERROR
          /\ parse_log[i].out = "raise"
    /\ \E i \in 1..Len(parse_log) :
          /\ Len(parse_log[i].calls) = 1
          /\ parse_log[i].calls[1].type_comments
          /\ parse_log[i].calls[1].outcome = "invalid syntax"
          /\ parse_log[i].out = "raise"

\* ------------------------------------------------------------------------
\* Specification: object_type, safe_infer and object_len on every inference
\* of up to MaxInferred values.
NextInfer ==
    \/ \E stream \in Streams(Kinds) :
          \/ ObjectType(stream)
          \/ SafeInfer(stream)
    \/ \E stream \in Streams(Kinds \cup {"Const"}), in_len \in BOOLEAN,
          owned \in BOOLEAN :
          ObjectLen(stream, in_len, owned)

SpecInfer == Init /\ [][NextInfer]_vars

\* The values every branch of _object_type maps to a type.
Mappable == Kinds \ {"Unknown", "Other"}
\* The distinct types mapped from the values of an inference.
MappedTypes(stream) ==
    {TypeOfInferred(stream.values[i]).yield : i \in 1..Len(stream.values)}

\* C22: object_type(node) returns the single mapped type when the distinct
\* types mapped from the inferred values of node are exactly one, and
\* Uninferable when they are none or several; it returns Uninferable, and
\* does not fail, when the mapping raises an inference error.
C22_ObjectTypeSingleOrUninferable ==
    (/\ hret.op = "object_type"
     /\ \A i \in 1..Len(hret.stream.values) : hret.stream.values[i] \in Mappable)
    => /\ hret.out = "return"
       /\ hret.value =
             IF hret.stream.ends = "InferenceError" THEN "Uninferable"
             ELSE IF Cardinality(MappedTypes(hret.stream)) = 1
             THEN CHOOSE t \in MappedTypes(hret.stream) : TRUE
             ELSE "Uninferable"

\* C23: safe_infer(node) returns the inferred value if and only if the
\* inference yields exactly one value and raises no inference error; in
\* every other case it returns None, and it never lets an inference error
\* out.
C23_SafeInferSingleValue ==
    hret.op = "safe_infer"
    => /\ hret.out = "return"
       /\ IF Len(hret.stream.values) = 1 /\ hret.stream.ends = "stop"
          THEN hret.value = hret.stream.values[1]
          ELSE hret.value = None

\* safe_infer on an inference that yields one value and then raises the
\* inference error when asked for the second.
C23_Witness ==
    /\ hret.op = "safe_infer"
    /\ Len(hret.stream.values) = 1
    /\ hret.stream.ends = "InferenceError"
    /\ hret.value = None

\* C27: object_len(node), for a node inside a function named __len__ that
\* infers to an instance of the class owning that function, raises the
\* recursion-hazard inference error instead of going on to infer the call
\* of __len__.
C27_SelfReferentialLenRaises ==
    (/\ hret.op = "object_len"
     /\ hret.in_len /\ hret.owned
     /\ hret.stream = [values |-> <<"Instance">>, ends |-> "stop"])
    => (hret.out = "raise" /\ hret.value = SelfReferentialLen)

\* ------------------------------------------------------------------------
\* Specification: has_known_bases, is_subtype and is_supertype on the
\* classes of ClassDefs.
NextTypes ==
    \/ \E klass \in Klasses : HasKnownBases(klass)
    \/ \E type1 \in Klasses, type2 \in Klasses :
          \/ IsSubtype(type1, type2)
          \/ IsSupertype(type1, type2)

SpecTypes == Init /\ [][NextTypes]_vars

\* The classes reached from klass through its bases in at most n steps,
\* with 0 for a base that infers to no class.
RECURSIVE Ancestors(_, _)
Ancestors(klass, n) ==
    IF n = 0 \/ klass = 0 THEN {klass}
    ELSE {klass} \cup UNION {Ancestors(ClassDefs[klass].bases[i], n - 1) :
                                i \in 1..Len(ClassDefs[klass].bases)}
\* The classes above klass, klass excluded unless it is its own ancestor.
Above(klass) ==
    UNION {Ancestors(ClassDefs[klass].bases[i], Len(ClassDefs)) :
              i \in 1..Len(ClassDefs[klass].bases)}
\* klass lies on a cycle of bases.
Cyclic(klass) == klass \in Above(klass)
\* The chain of bases of klass is fully known: every class on it was inferred
\* and none lies on a cycle.
FullyKnown(klass) ==
    /\ 0 \notin Above(klass)
    /\ \A k \in {klass} \cup Above(klass) : ~Cyclic(k)
\* The relation of two classes is decidable.
Decidable(a, b) ==
    /\ FullyKnown(a) /\ FullyKnown(b)
    /\ ClassDefs[a].newstyle /\ ClassDefs[b].newstyle
\* The method resolution order of a class with a fully known chain of single
\* bases: the class, then the order of its base.
RECURSIVE Mro(_)
Mro(klass) ==
    IF ClassDefs[klass].bases = <<>> THEN <<klass>>
    ELSE <<klass>> \o Mro(ClassDefs[klass].bases[1])
\* a appears in the order of b, the trailing entry excluded.
InMroButLast(a, b) == \E i \in 1..(Len(Mro(b)) - 1) : Mro(b)[i] = a

IsTypeCall == tret.op \in {"is_subtype", "is_supertype"}

\* C24: is_subtype and is_supertype return a boolean only when both classes
\* have fully known chains of bases and are of the new style; in every
\* other case they raise the non-deducible-hierarchy signal and never
\* return False.
C24_BooleanOnlyWhenDecidable ==
    IsTypeCall =>
       /\ tret.out = "return" => Decidable(tret.args[1], tret.args[2])
       /\ ~Decidable(tret.args[1], tret.args[2]) =>
             /\ tret.out = "raise"
             /\ tret.value = "_NonDeducibleTypeHierarchy"

\* C25: when the relation is decidable, is_subtype(a, b) holds iff a appears
\* in the method resolution order of b without its trailing entry, and
\* is_supertype(a, b) ends as is_subtype(b, a) does, for every pair.
C25_SubtypeIsMroMembership ==
    /\ (tret.op = "is_subtype" /\ Decidable(tret.args[1], tret.args[2])) =>
          /\ tret.out = "return"
          /\ tret.value = "True" <=> InMroButLast(tret.args[1], tret.args[2])
    /\ \A a \in Klasses, b \in Klasses :
          is_supertype(classes, a, b) = is_subtype(classes, b, a)

\* C26: for a class X of the new style with fully known bases,
\* is_subtype(X, object) is decidable and true.
C26_EveryClassIsSubtypeOfObject ==
    (/\ tret.op = "is_subtype"
     /\ ClassDefs[tret.args[2]].name = "object"
     /\ ClassDefs[tret.args[1]].newstyle
     /\ FullyKnown(tret.args[1]))
    => (tret.out = "return" /\ tret.value = "True")

\* C28: has_known_bases ends on every class graph, with False for a class
\* that is its own base and for classes whose bases are mutually recursive;
\* once it returned a value for a class, a later call returns that value
\* without inferring the bases again.
C28_KnownBasesEndsAndIsMemoized ==
    [][\A klass \in Klasses :
          HasKnownBases(klass) =>
             /\ tret'.out = "return"
             /\ Cyclic(klass) => tret'.value = "False"
             /\ classes[klass].known # "unset" =>
                   (tret'.value = classes[klass].known /\ tret'.infers = 0)]_vars

\* ------------------------------------------------------------------------
\* Specification: calls of delayed_assattr on nodes whose targets infer to up
\* to MaxInferred values.
NextAssattr ==
    \E frame \in Frames, values \in SeqsUpTo(AssValues, MaxInferred),
       ends \in {"stop", "ValueError"} :
        DelayedAssattr(frame, values, ends)

SpecAssattr == Init /\ [][NextAssattr]_vars

\* The node of the last call of delayed_assattr.
LastNode == [id |-> alog.n, frame |-> alog.frame]

====
